---------------------------- MODULE Spec2Model ----------------------------
(***************************************************************************)
(* A model of the Bridggy client (src/src/index.ts): the configuration     *)
(* holder, the credential inspector, the credential exchanger and the      *)
(* request rewriter / dispatcher, with the transport (global fetch) and    *)
(* the clock (Date.now) as the environment.                                *)
(*                                                                         *)
(* JavaScript values are tagged records [t |-> <typeof>, ...]; a string    *)
(* that is used as a compact token is kept as the list of its              *)
(* dot-separated segments, text that is encoded is kept as the list of its *)
(* characters.  Every fetch invocation is a process: its position (pc) is  *)
(* the await it is suspended at.                                           *)
(***************************************************************************)
EXTENDS Integers, Sequences, FiniteSets, TLC

(***************************************************************************)
(* JavaScript values                                                       *)
(***************************************************************************)
Undefined == [t |-> "undefined"]

Null == [t |-> "null"]

Num(n) == [t |-> "number", v |-> n]

Txt(s) == [t |-> "text", v |-> s]

Bool(b) == [t |-> "boolean", v |-> b]

\* A JSON object: a function from its keys to values.
Obj(f) == [t |-> "object", fields |-> f]

\* obj.key for any value obj: a missing key reads as undefined; reading a
\* property of null or undefined is a TypeError ("throw").
CanRead(x) == x.t \notin {"undefined", "null"}

Get(x, key) ==
  IF x.t = "object" /\ key \in DOMAIN x.fields THEN x.fields[key] ELSE Undefined

(***************************************************************************)
(* Compact tokens.  A string used as a token is [t |-> "string", segs],    *)
(* segs being what split('.') returns.  A segment is                       *)
(*   [form |-> "empty"]            the empty string                        *)
(*   [form |-> "notb64"]           text atob rejects                       *)
(*   [form |-> "notjson"]          base64 of text JSON.parse rejects       *)
(*   [form |-> "json", value, id]  base64 (or its URL-safe variant) of the *)
(*                                 JSON text of value                      *)
(***************************************************************************)
Str(segs) == [t |-> "string", segs |-> segs]

SegEmpty == [form |-> "empty"]

SegNotB64 == [form |-> "notb64"]

SegNotJson == [form |-> "notjson"]

SegJson(v) == [form |-> "json", value |-> v]

\* '' : split('.') of the empty string is [''].
EmptyStr == Str(<<SegEmpty>>)

\* JavaScript truthiness of a value held in a string-typed field.
Truthy(x) == x.t = "string" /\ x # EmptyStr

Claims(f) == Obj(f)

\* header.payload.signature
Jwt(payload) == Str(<<SegJson(Obj([alg |-> Txt(<<"HS256">>)])), payload, SegNotB64>>)


(***************************************************************************)
(* Results of a synchronous call: a returned value or a thrown error.      *)
(***************************************************************************)
Err(name, message) == [name |-> name, message |-> message]

Return(v) == [ok |-> TRUE, value |-> v]

Throw(e) == [ok |-> FALSE, error |-> e]

\* The milliseconds in a second (data.exp * 1000) and the safety margin.
MsPerSec == 1000

ExpiryMargin == 60000

(***************************************************************************)
(* getTokenPayload(token): token.split('.')[1], atob of it after the       *)
(* URL-safe substitutions, JSON.parse of that.                             *)
(***************************************************************************)
getTokenPayload(jwt) ==
  IF jwt.t # "string"
  THEN Throw(Err("TypeError", <<"Cannot read properties of undefined (reading 'split')">>))
  ELSE LET payload == IF Len(jwt.segs) >= 2 THEN jwt.segs[2] ELSE SegEmpty
       IN  CASE payload.form = "empty"   -> Throw(Err("Error", <<"Invalid token">>))
             [] payload.form = "notb64"  -> Throw(Err("InvalidCharacterError", <<"Invalid character">>))
             [] payload.form = "notjson" -> Throw(Err("SyntaxError", <<"Unexpected token">>))
             [] payload.form = "json"    -> Return(payload.value)

\* The comparison of line 181.
ExpiredAtLoose(now, exp) == now >= exp * MsPerSec - ExpiryMargin

ExpiredAt(now, exp) == now > exp * MsPerSec - ExpiryMargin

\* The body of the try block of isTokenExpired.
ExpiryOfNoTypeCheck(token, now) ==
  LET data == getTokenPayload(token)
  IN  IF ~data.ok THEN data
      ELSE IF ~CanRead(data.value)
      THEN Throw(Err("TypeError", <<"Cannot read properties of null (reading 'exp')">>))
      ELSE LET exp == Get(data.value, "exp")
           IN  IF exp.t # "number" THEN Return(FALSE) ELSE Return(ExpiredAt(now, exp.v))

ExpiryOf(token, now) ==
  LET data == getTokenPayload(token)
  IN  IF ~data.ok THEN data
      ELSE IF ~CanRead(data.value)
      THEN Throw(Err("TypeError", <<"Cannot read properties of null (reading 'exp')">>))
      ELSE LET exp == Get(data.value, "exp")
           IN  IF exp.t # "number" THEN Throw(Err("Error", <<"Malformed token">>))
               ELSE Return(ExpiredAt(now, exp.v))

\* isTokenExpired(): absent token is expired; any failure of the try block
\* is rethrown as 'invalid or malformed token'.
isTokenExpired(token, now) ==
  IF ~Truthy(token) THEN Return(TRUE)
  ELSE LET r == ExpiryOf(token, now)
       IN  IF r.ok THEN r ELSE Throw(Err("Error", <<"invalid or malformed token">>))


(***************************************************************************)
(* Text.  A string that is encoded or parsed is the sequence of its        *)
(* characters; a template literal is the concatenation of its pieces.      *)
(***************************************************************************)
\* The printable ASCII characters, from code 33 ('!') to code 126 ('~');
\* the double quote, the backslash and the grave accent are spelled out.
Ascii ==
  <<"!", "quote", "#", "$", "%", "&", "'", "(", ")", "*", "+", ",", "-", ".",
   "/", "0", "1", "2", "3", "4", "5", "6", "7", "8", "9", ":", ";", "<", "=",
   ">", "?", "@", "A", "B", "C", "D", "E", "F", "G", "H", "I", "J", "K", "L",
   "M", "N", "O", "P", "Q", "R", "S", "T", "U", "V", "W", "X", "Y", "Z", "[",
   "backslash", "]", "^", "_", "grave", "a", "b", "c", "d", "e", "f", "g", "h", "i",
   "j", "k", "l", "m", "n", "o", "p", "q", "r", "s", "t", "u", "v", "w", "x",
   "y", "z", "{", "|", "}", "~">>

\* charCodeAt: the code point of a character.
Ord(c) == 32 + CHOOSE i \in 1..Len(Ascii) : Ascii[i] = c

\* String.fromCharCode of a code.
Chr(n) == Ascii[n - 32]

\* The alphabet of btoa / atob.
B64Alphabet ==
  <<"A", "B", "C", "D", "E", "F", "G", "H", "I", "J", "K", "L", "M", "N",
   "O", "P", "Q", "R", "S", "T", "U", "V", "W", "X", "Y", "Z", "a", "b", "c",
   "d", "e", "f", "g", "h", "i", "j", "k", "l", "m", "n", "o", "p", "q", "r",
   "s", "t", "u", "v", "w", "x", "y", "z", "0", "1", "2", "3", "4", "5", "6",
   "7", "8", "9", "+", "/">>

\* TextEncoder.encode of one code point (up to U+FFFF): its UTF-8 bytes.
Utf8Of(cp) ==
  IF cp < 128 THEN <<cp>>
  ELSE IF cp < 2048 THEN <<192 + (cp \div 64), 128 + (cp % 64)>>
  ELSE <<224 + (cp \div 4096), 128 + ((cp \div 64) % 64), 128 + (cp % 64)>>

RECURSIVE encode(_)
\* encoder.encode(str): the UTF-8 bytes of the characters, in order.
encode(str) == IF str = <<>> THEN <<>> ELSE Utf8Of(Ord(Head(str))) \o encode(Tail(str))

RECURSIVE btoa(_)
\* btoa of a binary string, given as its bytes: three bytes make four
\* characters, a last group of one or two bytes is padded with '='.
btoa(bin) ==
  LET B(k) == B64Alphabet[k + 1]
  IN  IF Len(bin) = 0 THEN <<>>
      ELSE IF Len(bin) = 1
      THEN <<B(bin[1] \div 4), B((bin[1] % 4) * 16), "=", "=">>
      ELSE IF Len(bin) = 2
      THEN <<B(bin[1] \div 4), B((bin[1] % 4) * 16 + (bin[2] \div 16)),
             B((bin[2] % 16) * 4), "=">>
      ELSE <<B(bin[1] \div 4), B((bin[1] % 4) * 16 + (bin[2] \div 16)),
             B((bin[2] % 16) * 4 + (bin[3] \div 64)), B(bin[3] % 64)>>
           \o btoa(SubSeq(bin, 4, Len(bin)))

\* s.replace(/x/g, y) for single characters.
ReplaceAll(s, x, y) == [i \in 1..Len(s) |-> IF s[i] = x THEN y ELSE s[i]]

RECURSIVE StripTrailing(_, _)
\* s.replace(/x+$/, '').
StripTrailing(s, x) ==
  IF s # <<>> /\ s[Len(s)] = x THEN StripTrailing(SubSeq(s, 1, Len(s) - 1), x) ELSE s

b64urlEncodeNoStrip(str) ==
  ReplaceAll(ReplaceAll(btoa(encode(str)), "+", "-"), "/", "_")

\* b64urlEncode(str), lines 195-200.
b64urlEncode(str) ==
  StripTrailing(ReplaceAll(ReplaceAll(btoa(encode(str)), "+", "-"), "/", "_"), "=")


(***************************************************************************)
(* URLs.  new URL(string) is modelled for inputs made of a scheme, ':',    *)
(* and characters the parser leaves as they are: the scheme is lower-cased *)
(* and, for https, the slashes before the host are made '//', the host is  *)
(* lower-cased and an empty path becomes '/'.  Anything without a scheme   *)
(* is not an absolute URL.                                                 *)
(***************************************************************************)
IndexOf(s, x) ==
  IF \E i \in 1..Len(s) : s[i] = x
  THEN CHOOSE i \in 1..Len(s) : s[i] = x /\ \A j \in 1..(i - 1) : s[j] # x
  ELSE 0

IsUpper(c) == Ord(c) \in 65..90

IsAlpha(c) == Ord(c) \in (65..90) \cup (97..122)

toLowerCase(s) == [i \in 1..Len(s) |-> IF IsUpper(s[i]) THEN Chr(Ord(s[i]) + 32) ELSE s[i]]

RECURSIVE DropWhile(_, _)
DropWhile(s, x) == IF s # <<>> /\ Head(s) = x THEN DropWhile(Tail(s), x) ELSE s

\* The first position of s holding '/' or '?', or Len(s) + 1.
HostEnd(s) ==
  IF \E i \in 1..Len(s) : s[i] \in {"/", "?"}
  THEN CHOOSE i \in 1..Len(s) : s[i] \in {"/", "?"} /\ \A j \in 1..(i - 1) : s[j] \notin {"/", "?"}
  ELSE Len(s) + 1

HttpsScheme == <<"h", "t", "t", "p", "s">>

\* new URL(input).href, or the TypeError of the constructor.
ParseURL(input) ==
  LET k == IndexOf(input, ":")
  IN  IF k < 2 \/ \E i \in 1..(k - 1) : ~IsAlpha(input[i])
      THEN Throw(Err("TypeError", <<"Invalid URL">>))
      ELSE LET scheme == toLowerCase(SubSeq(input, 1, k - 1))
               rest   == SubSeq(input, k + 1, Len(input))
           IN  IF scheme # HttpsScheme
               THEN Return(scheme \o <<":">> \o rest)
               ELSE LET after == DropWhile(rest, "/")
                        e     == HostEnd(after)
                        host  == toLowerCase(SubSeq(after, 1, e - 1))
                        tail  == SubSeq(after, e, Len(after))
                    IN  IF host = <<>>
                        THEN Throw(Err("TypeError", <<"Invalid URL">>))
                        ELSE Return(scheme \o <<":", "/", "/">> \o host
                                    \o (IF tail # <<>> /\ Head(tail) = "/" THEN tail
                                        ELSE <<"/">> \o tail))

(***************************************************************************)
(* The inputs of fetch: a string, a URL value, a Request, or anything else *)
(***************************************************************************)
InString(chars) == [t |-> "string", chars |-> chars]

InURL(href) == [t |-> "URL", href |-> href]

InRequest(url, method, headers, body, redirect) ==
  [t |-> "Request", url |-> url, method |-> method, headers |-> headers,
   body |-> body, redirect |-> redirect]

\* getUrl(input), lines 148-166: the href of the normalized destination.
getUrl(input) ==
  CASE input.t = "string"  ->
         LET r == ParseURL(input.chars)
         IN  IF r.ok THEN r
             ELSE Throw(Err("TypeError", <<"input string must be an absolute URL, got ">>
                                         \o input.chars))
    [] input.t = "URL"     -> Return(input.href)
    [] input.t = "Request" -> ParseURL(input.url)
    [] OTHER               -> Throw(Err("TypeError", <<"Unsupported input type">>))

(***************************************************************************)
(* Headers.  A Headers object is a function from lower-cased names to      *)
(* values; a value is a sequence of text pieces (<<>> is the empty         *)
(* string).  The names the model uses are listed in HeaderOrder in the     *)
(* order Headers iterates them (sorted); NameLower gives the lower-cased   *)
(* form of each spelling a caller uses.                                    *)
(***************************************************************************)
HeaderOrder ==
  <<"connection", "content-type", "cookie", "gg-x-source",
    "gg-x-token", "keep-alive", "origin", "priority",
    "sec-ch-ua", "sec-fetch-mode", "transfer-encoding", "upgrade-insecure-requests",
    "user-agent", "x-custom", "x-forwarded-for">>

NameLower ==
  ("User-Agent" :> "user-agent") @@ ("Cookie" :> "cookie") @@
  ("Connection" :> "connection") @@ ("Keep-Alive" :> "keep-alive") @@
  ("X-Custom" :> "x-custom") @@ ("Content-Type" :> "content-type") @@
  ("Sec-Fetch-Mode" :> "sec-fetch-mode") @@ ("SEC-CH-UA" :> "sec-ch-ua") @@
  ("Origin" :> "origin") @@ ("PRIORITY" :> "priority") @@
  ("X-Forwarded-For" :> "x-forwarded-for")

LowerName(name) == IF name \in DOMAIN NameLower THEN NameLower[name] ELSE name

\* lowerKey.startsWith('sec-')
StartsWithSec(lowerKey) == lowerKey \in {"sec-ch-ua", "sec-fetch-mode"}

HeaderStatus == "gg-x-status"

HeaderError == "gg-x-error"

HeaderOrigin == "Origin"

HeaderToken == "gg-x-token"

HeaderTimestamp == "gg-x-timestamp"

HeaderSource == "gg-x-source"

NonProxyHeaders ==
  {"user-agent", "x-forwarded-for", "cookie", "connection", "keep-alive",
   "transfer-encoding", "upgrade-insecure-requests", "priority"}

SourceName == <<"client">>

RetryDelay == 2000

EmptyHeaders == [n \in {} |-> <<>>]

HeadersSet(h, name, value) ==
  [n \in DOMAIN h \cup {LowerName(name)} |-> IF n = LowerName(name) THEN value ELSE h[n]]

HeadersAppend(h, name, value) ==
  IF LowerName(name) \in DOMAIN h
  THEN HeadersSet(h, name, h[LowerName(name)] \o <<", ">> \o value)
  ELSE HeadersSet(h, name, value)

HeadersDelete(h, name) == [n \in DOMAIN h \ {LowerName(name)} |-> h[n]]

HeadersGet(h, name) == IF LowerName(name) \in DOMAIN h THEN Txt(h[LowerName(name)]) ELSE Null

HeadersHas(h, name) == LowerName(name) \in DOMAIN h

\* The names a Headers object iterates, in order (sort and combine).
HeadersKeys(h) == SelectSeq(HeaderOrder, LAMBDA n : n \in DOMAIN h)

RECURSIVE AppendAll(_, _)
AppendAll(h, pairs) ==
  IF pairs = <<>> THEN h
  ELSE AppendAll(HeadersAppend(h, pairs[1][1], pairs[1][2]), Tail(pairs))

\* new Headers(init): init is undefined or a list of <<name, value>>.
NewHeaders(init) == IF init.t = "undefined" THEN EmptyHeaders ELSE AppendAll(EmptyHeaders, init.pairs)

HeaderList(pairs) == [t |-> "headers", pairs |-> pairs]

IsNonProxy(key) ==
  LET lowerKey == LowerName(key)
  IN  lowerKey \in NonProxyHeaders \/ StartsWithSec(lowerKey)

RECURSIVE ForEachDelete(_, _)
\* headers.forEach with the callback of lines 75-80, from index i on.
\* forEach reads the i-th entry of the list as it is when it gets there:
\* the list is taken anew after every call of the callback.
ForEachDelete(h, i) ==
  LET keys == HeadersKeys(h)
  IN  IF i >= Len(keys) THEN h
      ELSE LET key == keys[i + 1]
           IN  ForEachDelete(IF IsNonProxy(key) THEN HeadersDelete(h, key) ELSE h, i + 1)


(***************************************************************************)
(* Template literals: `${x}` of a value.                                   *)
(***************************************************************************)
ToStr(x) ==
  CASE x.t = "text"      -> x.v
    [] x.t = "undefined" -> <<"undefined">>
    [] x.t = "null"      -> <<"null">>
    [] x.t = "number"    -> <<ToString(x.v)>>
    [] OTHER             -> <<"[object Object]">>

\* A header value or a claim that is a string: its text pieces.
Text(s) == Txt(<<s>>)

(***************************************************************************)
(* The state.                                                              *)
(*   proxyToken, token, retry   the fields of the client (lines 34-36)     *)
(*   now                        Date.now(), in milliseconds                *)
(*   window                     the global window, or undefined            *)
(*   pc[c]                      where invocation c of fetch is suspended   *)
(*   args[c]                    its arguments (input, init)                *)
(*   local[c]                   its locals: proxyUrl, req, i, the pending  *)
(*                              exchange response, the time the sleep ends *)
(*   sent[c], rcvd[c]           the calls it made of the transport and the *)
(*                              proxied responses it got, in order         *)
(*   outcome[c]                 what its promise settled to                *)
(***************************************************************************)
VARIABLES proxyToken, token, retry, now, window, pc, args, local, sent, rcvd, outcome

vars == <<proxyToken, token, retry, now, window, pc, args, local, sent, rcvd, outcome>>

\* The fetch invocations that may overlap on the client.
Calls == {"f1", "f2"}

\* The seconds the clock runs for.
MaxTicks == 4

\* for (let i = 0; i < 2; i++)
MaxAttempts == 2

(***************************************************************************)
(* Tokens the environment can supply.                                      *)
(***************************************************************************)
\* Access tokens: fresh for the whole run (exp = 0 + 3600 s), scope a.
TokFresh == Jwt(SegJson(Claims([sub |-> Text("test"), exp |-> Num(3600), scope |-> Text("a")])))

\* exp * 1000 - 60000 = 2000: the margin starts while the clock runs; scope b.
TokEdge == Jwt(SegJson(Claims([sub |-> Text("test"), exp |-> Num(62), scope |-> Text("b")])))

\* exp = 0 + 30 s: inside the margin from the start.
TokOld == Jwt(SegJson(Claims([sub |-> Text("test"), exp |-> Num(30), scope |-> Text("a")])))

TokNoScope == Jwt(SegJson(Claims([sub |-> Text("test"), exp |-> Num(3600)])))

TokNoExp == Jwt(SegJson(Claims([sub |-> Text("test"), scope |-> Text("a")])))

TokTextExp == Jwt(SegJson(Claims([sub |-> Text("test"), exp |-> Text("3600"), scope |-> Text("a")])))

\* 'invalid-token': no second segment.
TokNoDot == Str(<<SegNotB64>>)

TokNotB64 == Jwt(SegNotB64)

TokNotJson == Jwt(SegNotJson)

TokNull == Jwt(SegJson(Null))

AccessTokens ==
  {TokFresh, TokEdge, TokOld, TokNoScope, TokNoExp, TokTextExp, TokNoDot,
   TokNotB64, TokNotJson, TokNull}

\* Long-lived tokens: one with aud, one that cannot be decoded.
ProxyTok == Jwt(SegJson(Claims([sub |-> Text("test"), exp |-> Num(3600), aud |-> Text("http://issuer")])))

ProxyTokNoDot == Str(<<SegNotB64>>)

\* A second segment that is base64 but not JSON.
ProxyTokNotJson == Jwt(SegNotJson)

\* A second segment that is not base64.
ProxyTokNotB64 == Jwt(SegNotB64)

\* The options configure is called with.
Configs ==
  {[token |-> ProxyTok], [token |-> ProxyTok, retry |-> Bool(FALSE)],
   [token |-> ProxyTok, retry |-> Bool(TRUE)], [token |-> ProxyTokNoDot],
   [token |-> ProxyTokNotJson], [token |-> ProxyTokNotB64, retry |-> Bool(FALSE)],
   [token |-> EmptyStr]}

(***************************************************************************)
(* What the transport answers.                                             *)
(***************************************************************************)
\* Answers of the exchange endpoint: a status and a body.
JsonBody(v) == [form |-> "json", value |-> v]

ExchangeResponses ==
  {[status |-> 200, body |-> JsonBody(Obj([token |-> t]))] : t \in AccessTokens}
  \cup {[status |-> 200, body |-> JsonBody(Obj([error |-> Text("none")]))],
        [status |-> 200, body |-> [form |-> "notjson"]],
        [status |-> 401, body |-> JsonBody(Obj([error |-> Text("unauthorized")]))],
        [status |-> 500, body |-> [form |-> "notjson"]]}

\* Response.ok
Ok(resp) == resp.status \in 200..299

ErrorHeaders(error, status) == (HeaderError :> error) @@ (HeaderStatus :> status)

\* Answers of the proxy: an HTTP status and the headers.
ProxyResponses ==
  {[status |-> 200, headers |-> EmptyHeaders],
   [status |-> 500, headers |-> EmptyHeaders],
   [status |-> 200, headers |-> ErrorHeaders(<<"Bad Gateway">>, <<"502">>)],
   [status |-> 200, headers |-> ErrorHeaders(<<"Proxy error occurred">>, <<"500">>)],
   [status |-> 200, headers |-> ErrorHeaders(<<>>, <<"502">>)],
   [status |-> 502, headers |-> (HeaderError :> <<"Bad Gateway">>)]}

(***************************************************************************)
(* What fetch is called with.                                              *)
(***************************************************************************)
\* 'https://a/b?x=1&y=2'
HrefQuery == <<"h", "t", "t", "p", "s", ":", "/", "/", "a", "/", "b", "?", "x", "=", "1", "&", "y", "=", "2">>

\* 'HTTPS://A': new URL gives 'https://a/'
TextUpper == <<"H", "T", "T", "P", "S", ":", "/", "/", "A">>

\* 'https://a/b~+/=&'
HrefMarks == <<"h", "t", "t", "p", "s", ":", "/", "/", "a", "/", "b", "~", "+", "/", "=", "&">>

\* '/api/q': not absolute
TextRelative == <<"/", "a", "p", "i", "/", "q">>

NoInit == Undefined

InitOf(f) == [t |-> "init", fields |-> f]

TestHeaders ==
  HeaderList(<<<<"Content-Type", <<"application/json">>>>, <<"User-Agent", <<"test-agent">>>>,
               <<"Cookie", <<"session=123">>>>, <<"X-Custom", <<"custom-value">>>>>>)

\* A gg-x-token value a caller supplies: a token of the caller's own making.
TokForged == Jwt(SegJson(Claims([sub |-> Text("forged"), exp |-> Num(3600), scope |-> Text("z")])))

AdjacentHeaders ==
  HeaderList(<<<<"Cookie", <<"session=123">>>>, <<"Connection", <<"close">>>>,
               <<"X-Custom", <<"custom-value">>>>, <<"gg-x-source", <<"evil">>>>,
               <<"gg-x-token", <<TokForged>>>>>>)

BrowserHeaders ==
  HeaderList(<<<<"Sec-Fetch-Mode", <<"cors">>>>, <<"SEC-CH-UA", <<"ua">>>>,
               <<"x-custom", <<"v">>>>, <<"PRIORITY", <<"u=1">>>>>>)

FetchArgs ==
  {[input |-> InString(HrefQuery), init |-> NoInit],
   [input |-> InString(HrefQuery), init |-> InitOf([method |-> Text("GET"), headers |-> TestHeaders])],
   [input |-> InString(TextUpper),
    init |-> InitOf([method |-> Text("POST"), body |-> Text("{}"), headers |-> AdjacentHeaders])],
   [input |-> InURL(HrefMarks), init |-> InitOf([method |-> Text("GET"), headers |-> BrowserHeaders])],
   [input |-> InRequest(HrefQuery, Text("POST"), TestHeaders, Text("{}"), Text("follow")),
    init |-> NoInit],
   [input |-> InRequest(HrefMarks, Text("GET"), AdjacentHeaders, Null, Text("follow")),
    init |-> InitOf([redirect |-> Text("manual"), headers |-> BrowserHeaders])],
   [input |-> InString(TextRelative), init |-> NoInit],
   [input |-> Num(7), init |-> NoInit]}


(***************************************************************************)
(* fetch, lines 62-90: the proxied URL and the request options.            *)
(***************************************************************************)
\* init?.key
InitGet(init, key) ==
  IF init.t = "init" /\ key \in DOMAIN init.fields THEN init.fields[key] ELSE Undefined

\* const { headers: _initHeaders, ...restInit } = init || {}
RestInit(init) ==
  IF init.t # "init" THEN [k \in {} |-> Undefined]
  ELSE [k \in (DOMAIN init.fields) \ {"headers"} |-> init.fields[k]]

\* Lines 68-80 with the two headers set only where the caller gave none.
BuildHeadersKeepCaller(input, init, tok, win) ==
  LET h0 == NewHeaders(IF input.t = "Request" THEN input.headers ELSE InitGet(init, "headers"))
      h1 == IF HeadersHas(h0, HeaderSource) THEN h0 ELSE HeadersSet(h0, HeaderSource, SourceName)
      h2 == IF HeadersHas(h1, HeaderToken) THEN h1 ELSE HeadersSet(h1, HeaderToken, <<tok>>)
      h3 == IF win.t # "undefined" THEN HeadersSet(h2, HeaderOrigin, win.origin) ELSE h2
  IN  ForEachDelete(h3, 0)

\* Lines 68-80.
BuildHeaders(input, init, tok, win) ==
  LET h0 == NewHeaders(IF input.t = "Request" THEN input.headers ELSE InitGet(init, "headers"))
      h1 == HeadersSet(h0, HeaderSource, SourceName)
      h2 == HeadersSet(h1, HeaderToken, <<tok>>)
      h3 == IF win.t # "undefined" THEN HeadersSet(h2, HeaderOrigin, win.origin) ELSE h2
  IN  ForEachDelete(h3, 0)

\* Lines 83-90: the object literal, later keys overriding earlier ones.
BuildReq(input, init, headers) ==
  LET rest == RestInit(init)
      base == [method   |-> IF input.t = "Request" THEN input.method ELSE InitGet(init, "method"),
               body     |-> IF input.t = "Request" THEN input.body ELSE InitGet(init, "body"),
               redirect |-> IF input.t = "Request" THEN input.redirect ELSE InitGet(init, "redirect")]
  IN  [k \in {"method", "body", "redirect", "headers"} \cup DOMAIN rest |->
         IF k = "headers" THEN [t |-> "Headers", map |-> headers]
         ELSE IF k \in DOMAIN rest THEN rest[k]
         ELSE base[k]]

ProxyUrlOf(scope, href) ==
  <<"https://">> \o ToStr(scope) \o <<".bridggy.com/proxy?u=">> \o b64urlEncode(href)

\* Lines 62-90: [proxyUrl, req], or what is thrown on the way.
Rewrite(input, init, tok, win) ==
  LET url == getUrl(input)
  IN  IF ~url.ok THEN url
      ELSE LET payload == getTokenPayload(tok)
           IN  IF ~payload.ok THEN payload
               ELSE IF ~CanRead(payload.value)
               THEN Throw(Err("TypeError", <<"Cannot read properties of null (reading 'scope')">>))
               ELSE Return([proxyUrl |-> ProxyUrlOf(Get(payload.value, "scope"), url.value),
                            req      |-> BuildReq(input, init, BuildHeaders(input, init, tok, win))])

(***************************************************************************)
(* The steps of a fetch invocation.  A step is what runs between two       *)
(* awaits; it yields the next position, the settled outcome if any, the    *)
(* transport calls it made and the locals.                                 *)
(***************************************************************************)
Pending == [kind |-> "pending"]

Resolved(resp) == [kind |-> "response", response |-> resp]

Rejected(e) == [kind |-> "error", error |-> e]

NoArgs == [input |-> Undefined, init |-> Undefined]

NoLocal == [proxyUrl |-> <<>>, req |-> Undefined, i |-> 0, wake |-> 0, resp |-> Undefined]

Fail(e) == [pc |-> "done", outcome |-> Rejected(e), send |-> <<>>, local |-> NoLocal]

ProxyCall(url, req) == [kind |-> "proxy", url |-> url, req |-> req, at |-> now]

\* Lines 120-132: the call of the exchange endpoint.
ExchangeCall(aud) ==
  [kind |-> "exchange", url |-> ToStr(aud) \o <<"/token/exchange">>,
   req  |-> [method  |-> Text("POST"),
             headers |-> [t |-> "Headers",
                          map |-> ("content-type" :> <<"application/json">>)
                                  @@ (HeaderTimestamp :> <<ToString(now)>>)
                                  @@ (HeaderSource :> SourceName)],
             body    |-> Obj([token |-> proxyToken])],
   at   |-> now]

\* exchange() calling the endpoint whatever the decoding of the token gives.
StartExchangeNoDecode ==
  LET p == getTokenPayload(proxyToken)
  IN  [pc |-> "exchange", outcome |-> Pending,
       send |-> <<ExchangeCall(IF p.ok /\ CanRead(p.value) THEN Get(p.value, "aud") ELSE Undefined)>>,
       local |-> NoLocal]

\* exchange() up to its first await (lines 119-132).
StartExchange ==
  LET p == getTokenPayload(proxyToken)
  IN  IF ~p.ok THEN Fail(p.error)
      ELSE IF ~CanRead(p.value)
      THEN Fail(Err("TypeError", <<"Cannot read properties of null (reading 'aud')">>))
      ELSE [pc |-> "exchange", outcome |-> Pending,
            send |-> <<ExchangeCall(Get(p.value, "aud"))>>, local |-> NoLocal]

\* Lines 60-93 with the freshness test made again after the exchange.
ProceedRechecking(a) ==
  LET e == isTokenExpired(token, now)
      r == Rewrite(a.input, a.init, token, window)
  IN  IF ~e.ok THEN Fail(e.error)
      ELSE IF e.value THEN StartExchange
      ELSE IF ~r.ok THEN Fail(r.error)
      ELSE [pc |-> "proxy", outcome |-> Pending,
            send |-> <<ProxyCall(r.value.proxyUrl, r.value.req)>>,
            local |-> [NoLocal EXCEPT !.proxyUrl = r.value.proxyUrl, !.req = r.value.req]]

\* The global window: absent, or that of a page.
Windows == {Undefined, [t |-> "window", origin |-> <<"https://app.example">>]}

\* What this.token can hold.
HeldTokens == {Undefined} \cup AccessTokens

\* The graph of Rewrite over the arguments and the state a fetch can meet:
\* the rewrite of each is worked out once and looked up from then on.
Rewritten ==
  [a \in FetchArgs, tok \in HeldTokens, win \in Windows |-> Rewrite(a.input, a.init, tok, win)]

\* Lines 62-93 with i = 0: rewrite and dispatch.
Proceed(a) ==
  LET r == Rewritten[a, token, window]
  IN  IF ~r.ok THEN Fail(r.error)
      ELSE [pc |-> "proxy", outcome |-> Pending,
            send |-> <<ProxyCall(r.value.proxyUrl, r.value.req)>>,
            local |-> [NoLocal EXCEPT !.proxyUrl = r.value.proxyUrl, !.req = r.value.req]]

BeginNoConfigCheck(a) ==
  LET e == isTokenExpired(token, now)
  IN  IF ~e.ok THEN Fail(e.error)
      ELSE IF e.value THEN StartExchange
      ELSE Proceed(a)

\* Lines 58-60 and what follows without an await.
Begin(a) ==
  IF ~Truthy(proxyToken) THEN Fail(Err("Error", <<"Config not provided">>))
  ELSE LET e == isTokenExpired(token, now)
       IN  IF ~e.ok THEN Fail(e.error)
           ELSE IF e.value THEN StartExchange
           ELSE Proceed(a)

\* Lines 134-136, after the exchange response arrived.
AfterExchangeNoOkCheck(l, resp) ==
  [pc |-> "json", outcome |-> Pending, send |-> <<>>, local |-> [l EXCEPT !.resp = resp]]

AfterExchange(l, resp) ==
  IF ~Ok(resp)
  THEN Fail(Err("Error", <<"status: ", ToString(resp.status), " proxy: Token exchange failed">>))
  ELSE [pc |-> "json", outcome |-> Pending, send |-> <<>>, local |-> [l EXCEPT !.resp = resp]]

\* Line 100 without the test of i.
ShouldRetryEveryAttempt(l, proxyStatus) ==
  /\ retry = Bool(TRUE)
  /\ l.req["method"] = Text("GET")
  /\ proxyStatus = Text("502")

\* Line 100.
ShouldRetry(l, proxyStatus) ==
  /\ retry = Bool(TRUE)
  /\ l.i = 0
  /\ l.req["method"] = Text("GET")
  /\ proxyStatus = Text("502")

\* Lines 94-108, after a proxied response arrived.
AfterProxy(l, resp) ==
  LET proxyError  == HeadersGet(resp.headers, HeaderError)
      proxyStatus == HeadersGet(resp.headers, HeaderStatus)
  IN  IF proxyError.t = "text" /\ proxyError.v # <<>>
      THEN IF ShouldRetry(l, proxyStatus)
           THEN [pc |-> "sleep", outcome |-> Pending, send |-> <<>>,
                 local |-> [l EXCEPT !.wake = now + RetryDelay]]
           ELSE Fail(Err("Error", <<"status: ">> \o ToStr(proxyStatus) \o <<" ">> \o proxyError.v))
      ELSE [pc |-> "done", outcome |-> Resolved(resp), send |-> <<>>, local |-> l]

\* The next dispatch with the credential held by then attached anew.
AfterSleepReattaching(l) ==
  LET req == [l.req EXCEPT !["headers"] =
                [t |-> "Headers", map |-> HeadersSet(l.req["headers"].map, HeaderToken, <<token>>)]]
  IN  IF l.i + 1 < MaxAttempts
      THEN [pc |-> "proxy", outcome |-> Pending, send |-> <<ProxyCall(l.proxyUrl, req)>>,
            local |-> [l EXCEPT !.i = l.i + 1, !.req = req]]
      ELSE Fail(Err("Error", <<"proxy: unexpected fetch failed after retries">>))

\* continue: i++, the loop test, and the next dispatch (lines 92-93, 112).
AfterSleep(l) ==
  IF l.i + 1 < MaxAttempts
  THEN [pc |-> "proxy", outcome |-> Pending, send |-> <<ProxyCall(l.proxyUrl, l.req)>>,
        local |-> [l EXCEPT !.i = l.i + 1]]
  ELSE Fail(Err("Error", <<"proxy: unexpected fetch failed after retries">>))


(***************************************************************************)
(* Actions.                                                                *)
(***************************************************************************)
Init ==
  /\ proxyToken = Undefined
  /\ token = Undefined
  /\ retry = Undefined
  /\ now = 0
  /\ window \in Windows
  /\ pc = [c \in Calls |-> "idle"]
  /\ args = [c \in Calls |-> NoArgs]
  /\ local = [c \in Calls |-> NoLocal]
  /\ sent = [c \in Calls |-> <<>>]
  /\ rcvd = [c \in Calls |-> <<>>]
  /\ outcome = [c \in Calls |-> Pending]

\* The effect of a step of invocation c on its part of the state.
Took(c, step) ==
  /\ pc' = [pc EXCEPT ![c] = step.pc]
  /\ outcome' = [outcome EXCEPT ![c] = step.outcome]
  /\ sent' = [sent EXCEPT ![c] = sent[c] \o step.send]
  /\ local' = [local EXCEPT ![c] = step.local]

\* config.retry || true
RetryOrTruthy(config) ==
  IF "retry" \in DOMAIN config /\ config.retry = Bool(TRUE) THEN config.retry ELSE Bool(TRUE)

\* config.retry ?? true
RetryOrDefault(config) ==
  IF "retry" \in DOMAIN config /\ config.retry.t \notin {"undefined", "null"}
  THEN config.retry ELSE Bool(TRUE)

\* configure(config) that also drops the access token.
ConfigureClearing(config) ==
  /\ proxyToken' = config.token
  /\ retry' = RetryOrDefault(config)
  /\ token' = Undefined
  /\ UNCHANGED <<now, window, pc, args, local, sent, rcvd, outcome>>

\* configure(config), lines 46-49.
Configure(config) ==
  /\ proxyToken' = config.token
  /\ retry' = RetryOrDefault(config)
  /\ UNCHANGED <<token, now, window, pc, args, local, sent, rcvd, outcome>>

\* fetch(input, init) is called: it runs to its first await or to its end.
FetchCall(c, a) ==
  /\ pc[c] = "idle"
  /\ args' = [args EXCEPT ![c] = a]
  /\ Took(c, Begin(a))
  /\ UNCHANGED <<proxyToken, token, retry, now, window, rcvd>>

\* The exchange endpoint answers (line 128 resumes).
ExchangeResponse(c, resp) ==
  /\ pc[c] = "exchange"
  /\ Took(c, AfterExchange(local[c], resp))
  /\ UNCHANGED <<proxyToken, token, retry, now, window, args, rcvd>>

\* The end of exchange() storing the token only if none is held.
ExchangeJsonKeepHeld(c) ==
  /\ pc[c] = "json"
  /\ LET body == local[c].resp.body
     IN  IF body.form # "json"
         THEN /\ Took(c, Fail(Err("SyntaxError", <<"Unexpected token">>)))
              /\ token' = token
         ELSE IF ~CanRead(body.value)
         THEN /\ Took(c, Fail(Err("TypeError", <<"Cannot read properties of null (reading 'token')">>)))
              /\ token' = token
         ELSE /\ token' = IF token = Undefined THEN Get(body.value, "token") ELSE token
              /\ Took(c, [pc |-> "exchanged", outcome |-> Pending, send |-> <<>>,
                          local |-> NoLocal])
  /\ UNCHANGED <<proxyToken, retry, now, window, args, rcvd>>

\* resp.json() settles and exchange() ends (lines 138-140).
ExchangeJson(c) ==
  /\ pc[c] = "json"
  /\ LET body == local[c].resp.body
     IN  IF body.form # "json"
         THEN /\ Took(c, Fail(Err("SyntaxError", <<"Unexpected token">>)))
              /\ token' = token
         ELSE IF ~CanRead(body.value)
         THEN /\ Took(c, Fail(Err("TypeError", <<"Cannot read properties of null (reading 'token')">>)))
              /\ token' = token
         ELSE /\ token' = Get(body.value, "token")
              /\ Took(c, [pc |-> "exchanged", outcome |-> Pending, send |-> <<>>,
                          local |-> NoLocal])
  /\ UNCHANGED <<proxyToken, retry, now, window, args, rcvd>>

\* await this.exchange() resumes fetch (line 60 to line 93).
Resume(c) ==
  /\ pc[c] = "exchanged"
  /\ Took(c, Proceed(args[c]))
  /\ UNCHANGED <<proxyToken, token, retry, now, window, args, rcvd>>

\* The proxy answers (line 93 resumes).
ProxyResponse(c, shape) ==
  /\ pc[c] = "proxy"
  /\ LET resp == [n |-> Len(rcvd[c]) + 1, at |-> now, status |-> shape.status,
                 headers |-> shape.headers]
     IN  /\ rcvd' = [rcvd EXCEPT ![c] = Append(rcvd[c], resp)]
         /\ Took(c, AfterProxy(local[c], resp))
  /\ UNCHANGED <<proxyToken, token, retry, now, window, args>>

\* The timer of sleep(RetryDelay) fires: never before the delay has passed.
SleepDone(c) ==
  /\ pc[c] = "sleep"
  /\ now >= local[c].wake
  /\ Took(c, AfterSleep(local[c]))
  /\ UNCHANGED <<proxyToken, token, retry, now, window, args, rcvd>>

\* The transport rejects: the awaited global fetch throws.
TransportFails(c) ==
  /\ pc[c] \in {"exchange", "proxy"}
  /\ Took(c, Fail(Err("TypeError", <<"fetch failed">>)))
  /\ UNCHANGED <<proxyToken, token, retry, now, window, args, rcvd>>

\* The caller has taken the outcome; the slot stands for a later invocation.
Settle(c) ==
  /\ pc[c] = "done"
  /\ pc' = [pc EXCEPT ![c] = "idle"]
  /\ args' = [args EXCEPT ![c] = NoArgs]
  /\ local' = [local EXCEPT ![c] = NoLocal]
  /\ sent' = [sent EXCEPT ![c] = <<>>]
  /\ rcvd' = [rcvd EXCEPT ![c] = <<>>]
  /\ outcome' = [outcome EXCEPT ![c] = Pending]
  /\ UNCHANGED <<proxyToken, token, retry, now, window>>

\* Time passes, a second at a time.
Tick ==
  /\ now + MsPerSec <= MaxTicks * MsPerSec
  /\ now' = now + MsPerSec
  /\ UNCHANGED <<proxyToken, token, retry, window, pc, args, local, sent, rcvd, outcome>>

\* One invocation of fetch at a time.
Next ==
  \/ \E config \in Configs : Configure(config)
  \/ \E a \in FetchArgs : FetchCall("f1", a)
  \/ \E resp \in ExchangeResponses : ExchangeResponse("f1", resp)
  \/ ExchangeJson("f1")
  \/ Resume("f1")
  \/ \E shape \in ProxyResponses : ProxyResponse("f1", shape)
  \/ SleepDone("f1")
  \/ TransportFails("f1")
  \/ Settle("f1")
  \/ Tick

Spec == Init /\ [][Next]_vars

(***************************************************************************)
(* Overlapping invocations.  Two calls of fetch are made on the client,    *)
(* each once ("f1" is the one made first), and their steps interleave at   *)
(* the awaits, with configure calls in between.  Every transport call is   *)
(* answered, every continuation runs, and the clock goes on for as long as *)
(* a timer is pending.                                                     *)
(***************************************************************************)
\* The token in the body of a refused exchange.
TokRefused == TokOld

RaceConfigs == {[token |-> ProxyTok], [token |-> ProxyTok, retry |-> Bool(FALSE)]}

RaceArgs ==
  {[input |-> InString(HrefQuery), init |-> InitOf([method |-> Text("GET"), headers |-> TestHeaders])],
   [input |-> InString(TextUpper),
    init |-> InitOf([method |-> Text("POST"), body |-> Text("{}"), headers |-> AdjacentHeaders])]}

RaceExchangeResponses ==
  {[status |-> 200, body |-> JsonBody(Obj([token |-> TokFresh]))],
   [status |-> 200, body |-> JsonBody(Obj([token |-> TokEdge]))],
   [status |-> 401, body |-> JsonBody(Obj([token |-> TokRefused]))]}

RaceProxyResponses ==
  {[status |-> 200, headers |-> EmptyHeaders],
   [status |-> 200, headers |-> ErrorHeaders(<<"Bad Gateway">>, <<"502">>)]}

\* A timer of sleep(RetryDelay) has not fired yet.
TimerPending == \E c \in Calls : pc[c] = "sleep" /\ now < local[c].wake

\* Time passes until every pending timer has fired (with no timer pending
\* the passing of time is left out: the tokens of RaceExchangeResponses are
\* told apart by their scope, not by their expiry).
RaceTick ==
  /\ TimerPending
  /\ now' = now + MsPerSec
  /\ UNCHANGED <<proxyToken, token, retry, window, pc, args, local, sent, rcvd, outcome>>

RaceInit == Init /\ window = Undefined

RaceNext ==
  \/ \E config \in RaceConfigs : Configure(config)
  \/ \E a \in RaceArgs : FetchCall("f1", a)
  \/ pc["f1"] # "idle" /\ \E a \in RaceArgs : FetchCall("f2", a)
  \/ \E c \in Calls : \E resp \in RaceExchangeResponses : ExchangeResponse(c, resp)
  \/ \E c \in Calls : ExchangeJson(c)
  \/ \E c \in Calls : Resume(c)
  \/ \E c \in Calls : \E shape \in RaceProxyResponses : ProxyResponse(c, shape)
  \/ \E c \in Calls : SleepDone(c)
  \/ \E c \in Calls : TransportFails(c)
  \/ RaceTick

\* The transport answers every call, a settled promise runs its continuation,
\* and a timer fires once its delay has passed.
RaceFairness ==
  /\ \A c \in Calls :
       /\ WF_vars(\E resp \in RaceExchangeResponses : ExchangeResponse(c, resp))
       /\ WF_vars(ExchangeJson(c))
       /\ WF_vars(Resume(c))
       /\ WF_vars(\E shape \in RaceProxyResponses : ProxyResponse(c, shape))
       /\ WF_vars(SleepDone(c))
  /\ WF_vars(RaceTick)

RaceSpec == RaceInit /\ [][RaceNext]_vars /\ RaceFairness


(***************************************************************************)
(* Properties.                                                             *)
(***************************************************************************)
ErrNotConfigured == Err("Error", <<"Config not provided">>)

\* The proxied calls among the transport calls of an invocation.
ProxyCalls(c) == SelectSeq(sent[c], LAMBDA call : call.kind = "proxy")

ExchangeCalls(c) == SelectSeq(sent[c], LAMBDA call : call.kind = "exchange")

ProxyCallsAfter(c) == SelectSeq(sent'[c], LAMBDA call : call.kind = "proxy")

\* The method the transport sends for request options: GET when none is given.
OutgoingMethod(req) == IF req["method"].t = "undefined" THEN Text("GET") ELSE req["method"]

\* The header set of a proxied call.
HeadersOf(call) == call.req["headers"].map

\* The headers the caller supplied with an invocation, as a Headers object.
CallerHeaders(a) ==
  NewHeaders(IF a.input.t = "Request" THEN a.input.headers ELSE InitGet(a.init, "headers"))

\* C1: on a client with no long-lived credential configured, fetch fails with
\* 'Config not provided' for any input and makes no transport call.
C1_NotConfigured ==
  [][\A a \in FetchArgs :
       (FetchCall("f1", a) /\ ~Truthy(proxyToken)) =>
         /\ pc'["f1"] = "done"
         /\ outcome'["f1"] = Rejected(ErrNotConfigured)
         /\ sent'["f1"] = <<>>]_vars

C1_Witness ==
  /\ proxyToken = Undefined
  /\ args["f1"].input.t = "Request"
  /\ pc["f1"] = "done"
  /\ outcome["f1"] = Rejected(ErrNotConfigured)
  /\ sent["f1"] = <<>>

\* C2: the headers of every dispatched proxied request hold no deny-listed
\* name and no name beginning with 'sec-', and hold every other header the
\* caller supplied, with its value.
C2_DenyListRemoved ==
  \A c \in Calls : \A k \in 1..Len(sent[c]) :
    sent[c][k].kind = "proxy" =>
      LET h == HeadersOf(sent[c][k])
          given == CallerHeaders(args[c])
      IN  /\ \A n \in DOMAIN h : n \notin NonProxyHeaders /\ ~StartsWithSec(n)
          /\ \A n \in DOMAIN given :
               (n \notin NonProxyHeaders /\ ~StartsWithSec(n)
                /\ n \notin {HeaderSource, HeaderToken, "origin"})
               => (n \in DOMAIN h /\ h[n] = given[n])

\* What the claims call the retry condition, for the response that arrives.
FirstAttempt(c) == Len(rcvd[c]) = 0

CarriesError(shape) == HeadersHas(shape.headers, HeaderError)

RetryCondition(c, shape) ==
  /\ FirstAttempt(c)
  /\ retry = Bool(TRUE)
  /\ OutgoingMethod(local[c].req) = Text("GET")
  /\ HeadersGet(shape.headers, HeaderStatus) = Text("502")

\* C3: retry enabled, outgoing method GET: a first response with a proxy-error
\* header and proxy-status "502" is followed by a second dispatch, no sooner
\* than the retry delay after it; a second response without a proxy-error
\* header is what fetch resolves with, after exactly two proxied calls.
C3_RetryOn502 ==
  [][\A shape \in ProxyResponses :
       ProxyResponse("f1", shape) =>
         /\ (CarriesError(shape) /\ RetryCondition("f1", shape)) =>
              /\ pc'["f1"] = "sleep"
              /\ outcome'["f1"] = Pending
         /\ (~FirstAttempt("f1") /\ ~CarriesError(shape)) =>
              /\ outcome'["f1"] = Resolved(rcvd'["f1"][2])
              /\ Len(ProxyCallsAfter("f1")) = 2
              /\ ProxyCallsAfter("f1")[2].at >= rcvd["f1"][1].at + RetryDelay]_vars

\* C4: a response with a proxy-error header for which the retry condition
\* does not hold makes fetch reject with 'status: {proxyStatus} {proxyError}'
\* and no further dispatch is made.
C4_ProxyError ==
  [][\A shape \in ProxyResponses :
       (ProxyResponse("f1", shape) /\ CarriesError(shape) /\ ~RetryCondition("f1", shape)) =>
         /\ pc'["f1"] = "done"
         /\ outcome'["f1"] =
              Rejected(Err("Error", <<"status: ">> \o ToStr(HeadersGet(shape.headers, HeaderStatus))
                                    \o <<" ">> \o shape.headers[HeaderError]))
         /\ sent'["f1"] = sent["f1"]]_vars

\* C5: retry on by default, fetch(url) with no init: a first response with a
\* (non-empty) proxy-error header and proxy-status "502" is retried.
C5_DefaultGetRetried ==
  [][\A shape \in ProxyResponses :
       (/\ ProxyResponse("f1", shape)
        /\ FirstAttempt("f1")
        /\ retry = Bool(TRUE)
        /\ args["f1"].input.t = "string"
        /\ args["f1"].init = NoInit
        /\ CarriesError(shape)
        /\ shape.headers[HeaderError] # <<>>
        /\ HeadersGet(shape.headers, HeaderStatus) = Text("502"))
       => pc'["f1"] = "sleep"]_vars

\* C6: a response is handed back only if it carries no proxy-error header,
\* and then it is the response the transport gave last.
C6_NoErrorHeaderReturned ==
  \A c \in Calls :
    outcome[c].kind = "response" =>
      /\ ~HeadersHas(outcome[c].response.headers, HeaderError)
      /\ rcvd[c] # <<>>
      /\ outcome[c].response = rcvd[c][Len(rcvd[c])]


\* A held token whose claims decode to an object with a numeric exp.
NumericExp(tok) ==
  /\ Truthy(tok)
  /\ Len(tok.segs) >= 2
  /\ tok.segs[2].form = "json"
  /\ tok.segs[2].value.t = "object"
  /\ "exp" \in DOMAIN tok.segs[2].value.fields
  /\ tok.segs[2].value.fields["exp"].t = "number"

ExpOf(tok) == tok.segs[2].value.fields["exp"].v

\* The invocation began by calling the exchange endpoint.
ExchangedFirst(c) == sent'[c] # <<>> /\ sent'[c][1].kind = "exchange"

\* C7 as stated: with a numeric exp the held credential counts as expired
\* (and fetch exchanges) exactly when now >= exp * 1000 - 60000.
C7_ExpiredAtMargin ==
  [][\A a \in FetchArgs :
       (FetchCall("f1", a) /\ proxyToken = ProxyTok /\ NumericExp(token)) =>
         (ExchangedFirst("f1") <=> now >= ExpOf(token) * 1000 - 60000)]_vars

\* C7 as amended: expired exactly when now > exp * 1000 - 60000, so not yet
\* at the instant now = exp * 1000 - 60000; expired for exp <= now + 30 s,
\* not expired for exp = now + 3600 s.
C7_ExpiredPastMargin ==
  [][\A a \in FetchArgs :
       (FetchCall("f1", a) /\ proxyToken = ProxyTok /\ NumericExp(token)) =>
         /\ ExchangedFirst("f1") <=> now > ExpOf(token) * 1000 - 60000
         /\ now = ExpOf(token) * 1000 - 60000 => ~ExchangedFirst("f1")
         /\ ExpOf(token) * 1000 <= now + 30000 => ExchangedFirst("f1")
         /\ ExpOf(token) * 1000 = now + 3600000 => ~ExchangedFirst("f1")]_vars

\* A fetch made at the very instant the margin starts went on without an exchange.
C7_Witness ==
  /\ token = TokEdge
  /\ proxyToken = ProxyTok
  /\ pc["f1"] = "proxy"
  /\ Len(sent["f1"]) = 1
  /\ sent["f1"][1].kind = "proxy"
  /\ sent["f1"][1].at = ExpOf(TokEdge) * 1000 - 60000

ErrMalformed == Err("Error", <<"invalid or malformed token">>)

\* C8: with a held credential that does not decode to claims with a numeric
\* exp, fetch fails with 'invalid or malformed token', calls neither the
\* exchanger nor the transport, and leaves the credential as it is.
C8_MalformedToken ==
  [][\A a \in FetchArgs :
       (FetchCall("f1", a) /\ Truthy(proxyToken) /\ Truthy(token) /\ ~NumericExp(token)) =>
         /\ pc'["f1"] = "done"
         /\ outcome'["f1"] = Rejected(ErrMalformed)
         /\ sent'["f1"] = <<>>
         /\ token' = token]_vars

C8_Witness ==
  /\ token = TokNoExp
  /\ Truthy(proxyToken)
  /\ pc["f1"] = "done"
  /\ outcome["f1"] = Rejected(ErrMalformed)
  /\ sent["f1"] = <<>>

ErrExchangeFailed(status) ==
  Err("Error", <<"status: ", ToString(status), " proxy: Token exchange failed">>)

\* C9: a non-success answer of the exchange endpoint makes the fetch that
\* asked reject with 'status: {code} proxy: Token exchange failed'; it has
\* called the exchange endpoint once, dispatches nothing, and the held
\* credential stays what it was.
C9_ExchangeFailed ==
  [][\A resp \in ExchangeResponses :
       (ExchangeResponse("f1", resp) /\ ~(resp.status \in 200..299)) =>
         /\ pc'["f1"] = "done"
         /\ outcome'["f1"] = Rejected(ErrExchangeFailed(resp.status))
         /\ sent'["f1"] = sent["f1"]
         /\ Len(sent["f1"]) = 1
         /\ sent["f1"][1].kind = "exchange"
         /\ token' = token]_vars

C9_Witness ==
  /\ pc["f1"] = "done"
  /\ outcome["f1"] = Rejected(ErrExchangeFailed(401))
  /\ Len(ExchangeCalls("f1")) = 1
  /\ Len(ProxyCalls("f1")) = 0
  /\ token = TokOld

\* The reverse of the URL-safe base64 transform: '-' to '+', '_' to '/',
\* the padding restored, base64-decoded, UTF-8 decoded.
B64Index(ch) == CHOOSE k \in 0..63 : B64Alphabet[k + 1] = ch

RECURSIVE AtobBytes(_)
AtobBytes(s) ==
  IF s = <<>> THEN <<>>
  ELSE LET a == B64Index(s[1])
           b == B64Index(s[2])
       IN  IF s[3] = "=" THEN <<a * 4 + (b \div 16)>>
           ELSE IF s[4] = "="
           THEN <<a * 4 + (b \div 16), (b % 16) * 16 + (B64Index(s[3]) \div 4)>>
           ELSE <<a * 4 + (b \div 16), (b % 16) * 16 + (B64Index(s[3]) \div 4),
                  (B64Index(s[3]) % 4) * 64 + B64Index(s[4])>>
                \o AtobBytes(SubSeq(s, 5, Len(s)))

B64urlDecode(v) ==
  LET std == ReplaceAll(ReplaceAll(v, "-", "+"), "_", "/")
      padded == std \o (IF Len(std) % 4 = 2 THEN <<"=", "=">>
                        ELSE IF Len(std) % 4 = 3 THEN <<"=">> ELSE <<>>)
      bytes == AtobBytes(padded)
  IN  [i \in 1..Len(bytes) |-> Chr(bytes[i])]

\* The scope of the credential a proxied call carries, as the template prints it.
ScopeOf(call) == ToStr(Get(getTokenPayload(HeadersOf(call)[HeaderToken][1]).value, "scope"))

ProxyPrefix(call) == <<"https://">> \o ScopeOf(call) \o <<".bridggy.com/proxy?u=">>

EncodedPart(call) == SubSeq(call.url, Len(ProxyPrefix(call)) + 1, Len(call.url))

\* C10: the URL of every proxied call is 'https://{scope}.bridggy.com/proxy?u='
\* followed by a value without '+', '/', '=' that decodes back to the href of
\* the normalized destination.
C10_ProxyUrlRoundTrip ==
  \A c \in Calls : \A k \in 1..Len(sent[c]) :
    sent[c][k].kind = "proxy" =>
      LET call == sent[c][k]
          v == EncodedPart(call)
      IN  /\ SubSeq(call.url, 1, Len(ProxyPrefix(call))) = ProxyPrefix(call)
          /\ \A i \in 1..Len(v) : v[i] \notin {"+", "/", "="}
          /\ B64urlDecode(v) = getUrl(args[c].input).value

\* A proxied call for an href with '&', '=', '+', '/', whose encoding needed
\* the substitution of '+'.
C10_Witness ==
  /\ Len(sent["f1"]) = 1
  /\ sent["f1"][1].kind = "proxy"
  /\ getUrl(args["f1"].input).value = HrefMarks
  /\ \E i \in 1..Len(sent["f1"][1].url) : sent["f1"][1].url[i] = "-"
  /\ B64urlDecode(EncodedPart(sent["f1"][1])) = HrefMarks

\* The three options of a proxied call that lines 85-87 name.
CarriedOptions == {"method", "body", "redirect"}

\* C11: for a Request input the method, body and redirect of every proxied
\* call are those of the Request, whatever init is passed with it; for a
\* string or URL input they are those of init.
C11_OptionsFromRequest ==
  \A c \in Calls : \A k \in 1..Len(sent[c]) :
    sent[c][k].kind = "proxy" =>
      LET req == sent[c][k].req
          input == args[c].input
          init == args[c].init
      IN  IF input.t = "Request"
          THEN /\ req["method"] = input.method
               /\ req["body"] = input.body
               /\ req["redirect"] = input.redirect
          ELSE \A k2 \in CarriedOptions : req[k2] = InitGet(init, k2)

\* The retry value configure is to store for options: the one given, or true.
RetryAsked(config) == IF "retry" \in DOMAIN config THEN config.retry ELSE Bool(TRUE)

\* C12: configure stores the token and the retry value of the call (true
\* when the call gives none), whatever was stored before, and changes
\* nothing else; configure with the options already in force changes nothing.
C12_ConfigureReplaces ==
  [][\A config \in Configs :
       Configure(config) =>
         /\ proxyToken' = config.token
         /\ retry' = RetryAsked(config)
         /\ (proxyToken = config.token /\ retry = RetryAsked(config)) => UNCHANGED vars]_vars

\* A GET that met a 502 proxy error on its first attempt was rejected, so
\* retry was off then; since then a configure that names no retry value has
\* stored another token and retry is on again.
C12_Witness ==
  /\ proxyToken = ProxyTokNotJson
  /\ retry = Bool(TRUE)
  /\ pc["f1"] = "done"
  /\ Len(rcvd["f1"]) = 1
  /\ sent["f1"][1].kind = "proxy"
  /\ sent["f1"][1].req["method"] = Text("GET")
  /\ outcome["f1"] = Rejected(Err("Error", <<"status: ", "502", " ", "Bad Gateway">>))

\* What the freshness check of line 60 reports for the held credential.
Reports(expired) == isTokenExpired(token, now) = Return(expired)

\* The position of invocation c is inside exchange().
Exchanging(c) == pc[c] \in {"exchange", "json"}

\* C14: in a fetch on a configured client the freshness check comes first:
\* if it reports the credential absent or expired, the only transport call
\* the fetch may make next is one exchange call, and nothing is dispatched
\* until that exchange has completed successfully; if it reports the
\* credential fresh, no exchange call is made.  An invocation makes at most
\* one exchange call, as its first transport call, and when the exchange has
\* completed it goes on to the dispatch with the credential then held, even
\* an expired one, without another freshness check or exchange.
C14_FreshnessThenExchangeOnce ==
  [][/\ \A a \in FetchArgs :
          (FetchCall("f1", a) /\ Truthy(proxyToken)) =>
            /\ Reports(TRUE) =>
                 /\ ProxyCallsAfter("f1") = <<>>
                 /\ \/ pc'["f1"] = "exchange" /\ Len(sent'["f1"]) = 1
                                              /\ sent'["f1"][1].kind = "exchange"
                    \/ pc'["f1"] = "done" /\ sent'["f1"] = <<>>
            /\ Reports(FALSE) =>
                 \A k \in 1..Len(sent'["f1"]) : sent'["f1"][k].kind # "exchange"
     /\ \A k \in 1..Len(sent'["f1"]) : sent'["f1"][k].kind = "exchange" => k = 1
     /\ (Exchanging("f1") \/ pc'["f1"] \in {"exchange", "json", "exchanged"})
          => ProxyCallsAfter("f1") = <<>>
     /\ (ProxyCalls("f1") = <<>> /\ ProxyCallsAfter("f1") # <<>> /\ sent["f1"] # <<>>)
          => /\ pc["f1"] = "exchanged"
             /\ sent["f1"][1].kind = "exchange"
     /\ Resume("f1") =>
          /\ Len(sent["f1"]) = 1
          /\ \A k \in 2..Len(sent'["f1"]) : sent'["f1"][k].kind = "proxy"
          /\ (getUrl(args["f1"].input).ok /\ token \in {TokOld, TokNoExp, TokTextExp, TokFresh})
               => /\ pc'["f1"] = "proxy"
                  /\ Len(sent'["f1"]) = 2
                  /\ HeadersOf(sent'["f1"][2])[HeaderToken] = <<token>>]_vars

\* A fetch that found no credential exchanged once, was given one that is
\* already inside the expiry margin, and dispatched with it all the same.
C14_Witness ==
  /\ pc["f1"] = "proxy"
  /\ Len(sent["f1"]) = 2
  /\ sent["f1"][1].kind = "exchange"
  /\ sent["f1"][2].kind = "proxy"
  /\ token = TokOld
  /\ isTokenExpired(token, now) = Return(TRUE)
  /\ HeadersOf(sent["f1"][2])[HeaderToken] = <<TokOld>>

\* The exchange of invocation c is at its last step with a success response
\* whose body is a JSON object.
ExchangeSucceeds(c) ==
  /\ pc[c] = "json"
  /\ local[c].resp.status \in 200..299
  /\ local[c].resp.body.form = "json"
  /\ local[c].resp.body.value.t = "object"

\* The token field of the response the exchange of invocation c got.
TokenField(c) ==
  LET fields == local[c].resp.body.value.fields
  IN  IF "token" \in DOMAIN fields THEN fields["token"] ELSE Undefined

\* C15: the held access credential is absent at construction; the only step
\* that changes it is the end of a successful exchange, which stores the
\* token field of the exchange response in place of whatever was held.
\* configure, a failed exchange, the freshness check and the dispatch with
\* its retry leave it as it is, so a fetch after a reconfiguration attaches
\* the credential obtained before, as long as it is fresh.
C15_TokenOnlyByExchange ==
  /\ token = Undefined
  /\ [][/\ token' # token => (ExchangeJson("f1") /\ ExchangeSucceeds("f1"))
        /\ (ExchangeJson("f1") /\ ExchangeSucceeds("f1")) => token' = TokenField("f1")
        /\ (ExchangeJson("f1") /\ ~ExchangeSucceeds("f1")) => token' = token
        /\ \A config \in Configs : Configure(config) => token' = token
        /\ \A resp \in ExchangeResponses : ExchangeResponse("f1", resp) => token' = token
        /\ \A shape \in ProxyResponses : ProxyResponse("f1", shape) => token' = token
        /\ (Resume("f1") \/ SleepDone("f1") \/ TransportFails("f1")) => token' = token
        /\ \A a \in FetchArgs :
             FetchCall("f1", a) =>
               /\ token' = token
               /\ (Truthy(proxyToken) /\ Reports(FALSE) /\ getUrl(a.input).ok) =>
                    /\ Len(sent'["f1"]) = 1
                    /\ sent'["f1"][1].kind = "proxy"
                    /\ HeadersOf(sent'["f1"][1])[HeaderToken] = <<token>>]_vars

\* After a reconfiguration with a long-lived token that no exchange could
\* have been made with, a fetch went out carrying the credential obtained
\* under the earlier configuration.
C15_Witness ==
  /\ proxyToken = ProxyTokNotJson
  /\ token = TokFresh
  /\ pc["f1"] = "proxy"
  /\ Len(sent["f1"]) = 1
  /\ sent["f1"][1].kind = "proxy"
  /\ HeadersOf(sent["f1"][1])[HeaderToken] = <<TokFresh>>

\* A token whose claims cannot be decoded: no second segment, or a second
\* segment that is not base64 of JSON.
Undecodable(tok) ==
  /\ Truthy(tok)
  /\ \/ Len(tok.segs) < 2
     \/ tok.segs[2].form \in {"empty", "notb64", "notjson"}

\* The error the decoding of such a token ends with.
DecodeError(tok) ==
  IF Len(tok.segs) < 2 \/ tok.segs[2].form = "empty" THEN Err("Error", <<"Invalid token">>)
  ELSE IF tok.segs[2].form = "notb64" THEN Err("InvalidCharacterError", <<"Invalid character">>)
  ELSE Err("SyntaxError", <<"Unexpected token">>)

\* C16: when the long-lived credential's claims cannot be decoded, the
\* exchange a fetch starts fails with the decoder's error before the
\* transport is called: the fetch is rejected with that error, it has made no
\* transport call, and the held access credential is unchanged.
C16_UndecodableProxyToken ==
  [][\A a \in FetchArgs :
       (FetchCall("f1", a) /\ Undecodable(proxyToken) /\ Reports(TRUE)) =>
         /\ pc'["f1"] = "done"
         /\ outcome'["f1"] = Rejected(DecodeError(proxyToken))
         /\ sent'["f1"] = <<>>
         /\ token' = token]_vars

\* With an expired credential held and a long-lived token that is not JSON,
\* a fetch ended with the parser's error and an empty transport log.
C16_Witness ==
  /\ proxyToken = ProxyTokNotJson
  /\ token = TokOld
  /\ pc["f1"] = "done"
  /\ outcome["f1"] = Rejected(Err("SyntaxError", <<"Unexpected token">>))
  /\ sent["f1"] = <<>>

\* The step of invocation c assembles the headers (lines 62-90 run in it).
Assembles(c) == (pc[c] = "idle" \/ pc[c] = "exchanged") /\ pc'[c] = "proxy"

\* C17: every proxied call carries gg-x-source 'client' and, as gg-x-token,
\* the access credential the client held when the headers were assembled (a
\* retried call carries the headers of the first); a gg-x-source or
\* gg-x-token the caller supplied, on init or on a Request, is never what is
\* sent.
C17_SourceAndTokenSet ==
  [][\A k \in 1..Len(sent'["f1"]) :
       sent'["f1"][k].kind = "proxy" =>
         LET h == HeadersOf(sent'["f1"][k])
             given == CallerHeaders(args'["f1"])
         IN  /\ "gg-x-source" \in DOMAIN h
             /\ h["gg-x-source"] = <<"client">>
             /\ "gg-x-token" \in DOMAIN h
             /\ ("gg-x-source" \in DOMAIN given /\ given["gg-x-source"] # <<"client">>)
                  => h["gg-x-source"] # given["gg-x-source"]
             /\ "gg-x-token" \in DOMAIN given => h["gg-x-token"] # given["gg-x-token"]
             /\ (Assembles("f1") /\ k = Len(sent'["f1"])) => h["gg-x-token"] = <<token>>
             /\ (SleepDone("f1") /\ k = Len(sent'["f1"]))
                  => h = HeadersOf(sent["f1"][Len(sent["f1"])])]_vars

\* A Request whose headers name gg-x-source and gg-x-token went out with
\* 'client' and the held credential in their place.
C17_Witness ==
  /\ pc["f1"] = "proxy"
  /\ args["f1"].input.t = "Request"
  /\ HeadersHas(CallerHeaders(args["f1"]), HeaderToken)
  /\ CallerHeaders(args["f1"])["gg-x-source"] = <<"evil">>
  /\ token = TokFresh
  /\ Len(sent["f1"]) = 1
  /\ HeadersOf(sent["f1"][1])["gg-x-source"] = <<"client">>
  /\ HeadersOf(sent["f1"][1])["gg-x-token"] = <<TokFresh>>

\* The claims of the credential a proxied call carries.
CarriedClaims(call) == getTokenPayload(HeadersOf(call)[HeaderToken][1]).value

\* C20: no proxied call is ever made with a credential whose claims carry no
\* scope, and none goes to a host built from a missing scope
\* ('undefined.bridggy.com'): such a fetch fails instead.
C20_MissingScopeFails ==
  \A c \in Calls : \A k \in 1..Len(sent[c]) :
    sent[c][k].kind = "proxy" =>
      /\ "scope" \in DOMAIN CarriedClaims(sent[c][k]).fields
      /\ SubSeq(sent[c][k].url, 1, 3) # <<"https://", "undefined", ".bridggy.com/proxy?u=">>

\* Invocation c has been called and has not settled.
Running(c) == pc[c] \in {"exchange", "json", "exchanged", "proxy", "sleep"}

ErrUnexpected == Err("Error", <<"proxy: unexpected fetch failed after retries">>)

ErrBadGateway == Err("Error", <<"status: ", "502", " ", "Bad Gateway">>)

\* C13: an invocation of fetch dispatches the proxied request at most twice;
\* once called it settles, given that the transport answers, with one
\* outcome, a response or an error, which then stays; it never ends with
\* 'proxy: unexpected fetch failed after retries'; a second response ends
\* it: with the response, or with the proxy error it carries (two 502 proxy
\* errors in a row on a GET with retry on end in 'status: 502 Bad Gateway').
C13_TwoAttemptsOneOutcome ==
  /\ [](\A c \in Calls :
          /\ Len(ProxyCalls(c)) <= 2
          /\ Len(rcvd[c]) <= 2
          /\ outcome[c] # Rejected(ErrUnexpected)
          /\ pc[c] = "done" <=> outcome[c] # Pending
          /\ outcome[c].kind \in {"pending", "response", "error"}
          /\ Len(rcvd[c]) = 2 =>
               /\ pc[c] = "done"
               /\ Len(ProxyCalls(c)) = 2
               /\ IF HeadersGet(rcvd[c][2].headers, HeaderError) = Text("Bad Gateway")
                  THEN outcome[c] = Rejected(ErrBadGateway)
                  ELSE outcome[c] = Resolved(rcvd[c][2]))
  /\ [][\A c \in Calls : outcome[c] # Pending => outcome'[c] = outcome[c]]_vars
  /\ \A c \in Calls : Running(c) ~> pc[c] = "done"

\* A GET with retry on met a 502 proxy error twice: two dispatches, and the
\* error of the second response is the outcome.
C13_Witness ==
  /\ pc["f1"] = "done"
  /\ Len(ProxyCalls("f1")) = 2
  /\ Len(rcvd["f1"]) = 2
  /\ HeadersGet(rcvd["f1"][1].headers, HeaderStatus) = Text("502")
  /\ HeadersGet(rcvd["f1"][2].headers, HeaderStatus) = Text("502")
  /\ outcome["f1"] = Rejected(ErrBadGateway)

(***************************************************************************)
(* C18.  Overlapping exchanges.                                            *)
(***************************************************************************)
\* The tokens the exchange endpoint returns with a success response.
GrantedTokens ==
  {Get(resp.body.value, "token") : resp \in {r \in RaceExchangeResponses : Ok(r)}}

\* Invocation c has called the exchange endpoint.
CalledExchange(c) == \E k \in 1..Len(sent[c]) : sent[c][k].kind = "exchange"

\* C18: fetch calls that overlap on one client and each find the credential
\* absent or expired each make their own exchange, with nothing keeping
\* them apart.  Whatever the interleaving, each of them comes to its end
\* with an outcome of its own; every exchange that completes successfully
\* stores the token it was given over whatever is held, so the credential
\* held once all exchanges have finished is that of the exchange that
\* completed last; and the credential held is at every moment absent or a
\* token that a successful exchange returned, never one from the body of a
\* refused exchange.
C18_LastExchangeWins ==
  /\ [](/\ token = Undefined \/ token \in GrantedTokens
        /\ token # TokRefused
        /\ token # Undefined => \E c \in Calls : CalledExchange(c))
  /\ [][\A c \in Calls :
          /\ (ExchangeJson(c) /\ ExchangeSucceeds(c)) => token' = TokenField(c)
          /\ (ExchangeJson(c) /\ ~ExchangeSucceeds(c)) => token' = token]_vars
  /\ [][token' # token => \E c \in Calls : ExchangeJson(c) /\ ExchangeSucceeds(c)]_vars
  /\ [][\A c \in Calls : outcome[c] # Pending => outcome'[c] = outcome[c]]_vars
  /\ \A c \in Calls : Exchanging(c) ~> (pc[c] = "done" /\ outcome[c] # Pending)

\* Both calls found no credential and made their own exchange; the first
\* was given one token and dispatched with it, the second was given another
\* and completed later: the credential held is the second's.
C18_Witness ==
  /\ \A c \in Calls : Len(sent[c]) = 2 /\ sent[c][1].kind = "exchange" /\ sent[c][2].kind = "proxy"
  /\ HeadersOf(sent["f1"][2])[HeaderToken] = <<TokFresh>>
  /\ HeadersOf(sent["f2"][2])[HeaderToken] = <<TokEdge>>
  /\ token = TokEdge
  /\ \A c \in Calls : pc[c] = "done" /\ outcome[c].kind = "response"

(***************************************************************************)
(* C19.  One credential for the hostname and for the gg-x-token header.    *)
(***************************************************************************)
\* The step assembles the proxied request of invocation c: its first
\* proxied call appears.
AssemblesRequest(c) == Len(ProxyCalls(c)) = 0 /\ Len(ProxyCallsAfter(c)) = 1

\* C19: whatever the interleaving of overlapping fetch calls, exchanges and
\* configure calls, the request a fetch assembles carries in gg-x-token the
\* credential held at that moment, and its URL begins with the host made of
\* the scope of that same credential: no proxied call goes to the host of
\* one credential's scope with another credential attached.  The second
\* attempt of a retried request is the first one again, with the same URL
\* and the same credential, even if another credential has been stored in
\* between.
C19_HostAndTokenOfOneCredential ==
  /\ [](\A c \in Calls : \A k \in 1..Len(sent[c]) :
          sent[c][k].kind = "proxy" =>
            SubSeq(sent[c][k].url, 1, Len(ProxyPrefix(sent[c][k]))) = ProxyPrefix(sent[c][k]))
  /\ [](\A c \in Calls :
          Len(ProxyCalls(c)) = 2 =>
            /\ ProxyCalls(c)[2].url = ProxyCalls(c)[1].url
            /\ ProxyCalls(c)[2].req = ProxyCalls(c)[1].req)
  /\ [][\A c \in Calls :
          AssemblesRequest(c) =>
            /\ HeadersOf(ProxyCallsAfter(c)[1])[HeaderToken] = <<token>>
            /\ ScopeOf(ProxyCallsAfter(c)[1]) = ToStr(Get(getTokenPayload(token).value, "scope"))
            /\ token' = token]_vars

\* The first call dispatched with the credential of scope a and was retried
\* after another credential, of scope b, had been stored by the exchange of
\* the second call: both attempts went to the host of scope a with the
\* credential of scope a, the second call's request to the host of scope b
\* with the credential of scope b.
C19_Witness ==
  /\ Len(ProxyCalls("f1")) = 2
  /\ ProxyCalls("f1")[1].at < ProxyCalls("f1")[2].at
  /\ \A k \in 1..2 : /\ HeadersOf(ProxyCalls("f1")[k])[HeaderToken] = <<TokFresh>>
                     /\ ScopeOf(ProxyCalls("f1")[k]) = <<"a">>
  /\ token = TokEdge
  /\ Len(ProxyCalls("f2")) = 1
  /\ ProxyCalls("f2")[1].at < ProxyCalls("f1")[2].at
  /\ HeadersOf(ProxyCalls("f2")[1])[HeaderToken] = <<TokEdge>>
  /\ ScopeOf(ProxyCalls("f2")[1]) = <<"b">>

=============================================================================
